---- MODULE Spec2Model ----
(***************************************************************************)
(* A model of the square-terminal backend (src/server.js, the current      *)
(* server starting at line 101): the multi-profile credential store, its   *)
(* persistence to the PROFILES_JSON environment variable and to the        *)
(* hosting provider, session authentication, the OAuth callback and the    *)
(* charge / payment-link handlers.                                         *)
(*                                                                         *)
(* Node runs one handler segment at a time: a handler is atomic from its   *)
(* start to its first await and between awaits.  Every action below is one *)
(* such segment.                                                           *)
(*                                                                         *)
(* Strings that the code slices or parses (access tokens, amounts) are     *)
(* sequences of one-character strings.  JavaScript numbers are tagged      *)
(* records so that null, NaN and a number stay distinct.                   *)
(***************************************************************************)
EXTENDS Integers, Sequences, FiniteSets, TLC

(***************************************************************************)
(* Bounds of the model.                                                    *)
(***************************************************************************)
MaxEvents   == 4   \* requests, restarts and clock advances in one behaviour
MaxProfiles == 2   \* profiles held by the store at once
MaxSessions == 1   \* sessions created by login
MaxTxSteps  == 2   \* requests received in one behaviour of SpecTx

(***************************************************************************)
(* Program constants.                                                      *)
(***************************************************************************)
MaxTransactions == 50                      \* addTransaction's cap
MaskKeep        == 4                       \* characters maskToken keeps at each end
MaskMinLen      == 8                       \* tokens shorter than this are fully masked
SessionTtlMs    == 12 * 60 * 60 * 1000     \* isValidSession's expiry

(***************************************************************************)
(* JavaScript values.                                                      *)
(***************************************************************************)
JsNull   == [t |-> "null", v |-> 0]
JsNaN    == [t |-> "nan",  v |-> 0]
JsNum(n) == [t |-> "num",  v |-> n]

\* Truthiness of a number-or-null value: null, 0 and NaN are falsy.
Truthy(x) == x.t = "num" /\ x.v # 0

\* a > b on JavaScript numbers: false when either side is NaN.
JsGreater(a, b) == a.t = "num" /\ b.t = "num" /\ a.v > b.v

Digits == <<"0", "1", "2", "3", "4", "5", "6", "7", "8", "9">>

IsDigit(c) == \E i \in 1..Len(Digits) : Digits[i] = c

DigitVal(c) == (CHOOSE i \in 1..Len(Digits) : Digits[i] = c) - 1

\* Number of leading digit characters of s.
RECURSIVE DigitPrefix(_)
DigitPrefix(s) ==
  IF s = <<>> \/ ~IsDigit(Head(s)) THEN 0 ELSE 1 + DigitPrefix(Tail(s))

\* Value of a sequence of digit characters.
RECURSIVE DigitsValue(_)
DigitsValue(s) ==
  IF s = <<>> THEN 0
  ELSE 10 * DigitsValue(SubSeq(s, 1, Len(s) - 1)) + DigitVal(s[Len(s)])

\* parseFloat on integer literals: an optional sign, then the longest prefix
\* of digits; anything after it is ignored; no digit at all gives NaN.
ParseFloat(s) ==
  LET neg  == s # <<>> /\ Head(s) = "-"
      body == IF neg THEN Tail(s) ELSE s
      n    == DigitPrefix(body)
  IN  IF n = 0 THEN JsNaN
      ELSE LET v == DigitsValue(SubSeq(body, 1, n))
           IN  JsNum(IF neg THEN 0 - v ELSE v)

\* `maxAmount ? parseFloat(maxAmount) : null` (an empty or absent field is falsy).
ParseMaxAmount(raw) == IF raw = <<>> THEN JsNull ELSE ParseFloat(raw)

(***************************************************************************)
(* maskToken.                                                              *)
(***************************************************************************)
Bullets == <<"*", "*", "*", "*", "*", "*", "*", "*">>

maskToken(t) ==
  IF t = <<>> \/ Len(t) < MaskMinLen THEN Bullets
  ELSE SubSeq(t, 1, MaskKeep) \o Bullets \o SubSeq(t, Len(t) - MaskKeep + 1, Len(t))


(***************************************************************************)
(* Inputs.                                                                 *)
(***************************************************************************)
TokShort == <<"a", "b", "c">>
TokEight == <<"a", "b", "c", "d", "e", "f", "g", "h">>
TokOAuth == <<"o", "a", "u", "t", "h", "t", "o", "k", "n">>

\* <<accessToken, maxAmount>> of a create/update request body (<<>> is an
\* absent field).
SecretInputs ==
  { <<TokShort, <<>>>>, <<TokEight, <<"2">>>>, <<<<>>, <<"0">>>>, <<<<>>, <<"2">>>>,
    <<TokShort, <<"x">>>> }

\* amount of a charge / payment-link request body.
AmountInputs == {<<>>, <<"1">>, <<"3">>, <<"x">>}

\* <<name, applicationId, locationId>> of a create/update request body.
FieldInputs ==
  { <<"", "app", "loc">>, <<"Shop", "", "loc">>, <<"Shop", "app", "">>,
    <<"Shop", "app", "loc">> }

\* <<cookie, x-session-token header>> of a request; 0 is an absent value.
AuthInputs ==
  {<<0, 0>>} \cup {<<t, 0>> : t \in 1..MaxSessions} \cup {<<0, t>> : t \in 1..MaxSessions}

\* Statuses the processor gives a created payment.
PaymentStatuses == {"COMPLETED", "PENDING"}

\* Environment configurations the process may be started with.
Configs ==
  { [renderApiToken |-> "rnd_token", renderServiceId |-> "srv-1", sqClientId |-> "sq0idp"],
    [renderApiToken |-> "rnd_token", renderServiceId |-> "",      sqClientId |-> "sq0idp"],
    [renderApiToken |-> "",          renderServiceId |-> "",      sqClientId |-> ""] }

(***************************************************************************)
(* State.                                                                  *)
(***************************************************************************)
VARIABLES
  cfg,          \* RENDER_API_TOKEN, RENDER_SERVICE_ID, SQ_CLIENT_ID (fixed at start)
  store,        \* [activeId, profiles]
  squareClient, \* the access token the payments client was built with
  env,          \* process.env.PROFILES_JSON: <<>> when unset, else <<text>>
  renderEnv,    \* PROFILES_JSON held by the hosting provider
  renderPuts,   \* PUT requests to the hosting provider still in flight
  putLost,      \* a PUT was answered with an error, or abandoned at a restart
  sessions,     \* token -> [createdAt]
  oauthStates,  \* state -> [profileName, createdAt]
  charges,      \* charge / payment-link handlers awaiting the processor
  callbacks,    \* /auth/callback handlers awaiting Square
  now,          \* Date.now()
  nextId,       \* the next value uuidv4() returns
  nextToken,    \* the next session token crypto.randomBytes() returns
  mutated,      \* a handler of this process has changed the store
  lastReq       \* the last event (request, restart, tick) and its immediate answer

vars ==
  << cfg, store, squareClient, env, renderEnv, renderPuts, putLost, sessions,
     oauthStates, charges, callbacks, now, nextId, nextToken, mutated, lastReq >>

(***************************************************************************)
(* The store and its serialization.                                        *)
(***************************************************************************)
\* Index of the first profile with this id, 0 when there is none
\* (store.profiles.find(p => p.id === id)).
FindProfile(s, id) ==
  IF \E i \in 1..Len(s.profiles) : s.profiles[i].id = id
  THEN CHOOSE i \in 1..Len(s.profiles) :
         /\ s.profiles[i].id = id
         /\ \A j \in 1..(i - 1) : s.profiles[j].id # id
  ELSE 0

\* Decimal digits of a natural number.
RECURSIVE NatText(_)
NatText(n) ==
  IF n < 10 THEN <<Digits[n + 1]>> ELSE NatText(n \div 10) \o <<Digits[(n % 10) + 1]>>

NullText == <<"n", "u", "l", "l">>

\* JSON.stringify of a number or null: NaN has no JSON form and is written null.
JsonNumber(x) ==
  IF x.t = "num"
  THEN IF x.v < 0 THEN <<"-">> \o NatText(0 - x.v) ELSE NatText(x.v)
  ELSE NullText

\* JSON.parse of a number or null.
JsonParseNumber(text) == IF text = NullText THEN JsNull ELSE ParseFloat(text)

TxJson(tx) ==
  [ id |-> tx.id, type |-> tx.type, amount |-> JsonNumber(tx.amount),
    status |-> tx.status ]

TxParse(t) ==
  [ id |-> t.id, type |-> t.type, amount |-> JsonParseNumber(t.amount),
    status |-> t.status ]

ProfileJson(p) ==
  [ id |-> p.id, name |-> p.name, accessToken |-> p.accessToken,
    applicationId |-> p.applicationId, locationId |-> p.locationId,
    maxAmount |-> JsonNumber(p.maxAmount),
    transactions |-> [i \in 1..Len(p.transactions) |-> TxJson(p.transactions[i])] ]

\* A member the text does not have is undefined after parsing: it is left
\* out of the parsed record.
ProfileParse(t) ==
  LET base == [ id |-> t.id, name |-> t.name, accessToken |-> t.accessToken,
                applicationId |-> t.applicationId, locationId |-> t.locationId ]
      max  == IF "maxAmount" \in DOMAIN t
              THEN [maxAmount |-> JsonParseNumber(t.maxAmount)] ELSE <<>>
      txs  == IF "transactions" \in DOMAIN t
              THEN [transactions |->
                      [i \in 1..Len(t.transactions) |-> TxParse(t.transactions[i])]]
              ELSE <<>>
  IN  base @@ max @@ txs

\* JSON.stringify(store): the text, as the tree of literals it spells
\* (strings are spelled losslessly and kept as they are).
Stringify(s) ==
  [ activeId |-> s.activeId,
    profiles |-> [i \in 1..Len(s.profiles) |-> ProfileJson(s.profiles[i])] ]

JsonParse(text) ==
  [ activeId |-> text.activeId,
    profiles |-> [i \in 1..Len(text.profiles) |-> ProfileParse(text.profiles[i])] ]

\* The start-up normalisation of a loaded profile:
\*   if (!p.transactions) p.transactions = [];
\*   if (p.maxAmount === undefined) p.maxAmount = null;
NormaliseProfile(p) ==
  LET withTx == IF "transactions" \in DOMAIN p THEN p ELSE p @@ [transactions |-> <<>>]
  IN  IF "maxAmount" \in DOMAIN withTx THEN withTx ELSE withTx @@ [maxAmount |-> JsNull]

defaultProfile(id) ==
  [ id |-> id, name |-> "Default", accessToken |-> <<>>, applicationId |-> "",
    locationId |-> "", maxAmount |-> JsNull, transactions |-> <<>> ]

\* loadProfiles() followed by the forEach at start-up, for a process started
\* with PROFILES_JSON = e and uuidv4() returning id.
loadProfiles(e, id) ==
  IF e # <<>>
  THEN LET s == JsonParse(e[1])
       IN  [ activeId |-> s.activeId,
             profiles |-> [i \in 1..Len(s.profiles) |-> NormaliseProfile(s.profiles[i])] ]
  ELSE [ activeId |-> id, profiles |-> <<defaultProfile(id)>> ]

activeProfile(s) ==
  LET i == FindProfile(s, s.activeId)
  IN  IF i # 0 THEN s.profiles[i] ELSE s.profiles[1]

\* A client built with the SQUARE_ACCESS_TOKEN of the environment (unset here)
\* whatever the profile.
createClientDefaultToken(profile) == <<>>

createClient(profile) == profile.accessToken

\* addTransaction without the slice.
addTransactionNoCap(s, profileId, tx) ==
  LET i == FindProfile(s, profileId)
  IN  IF i = 0 THEN s
      ELSE [s EXCEPT !.profiles[i].transactions = <<tx>> \o @]

\* addTransaction with slice(-50): the newest entries are kept at the tail.
addTransactionKeepTail(s, profileId, tx) ==
  LET i == FindProfile(s, profileId)
  IN  IF i = 0 THEN s
      ELSE LET grown == <<tx>> \o s.profiles[i].transactions
               kept  == IF Len(grown) > MaxTransactions
                        THEN SubSeq(grown, Len(grown) - MaxTransactions + 1, Len(grown))
                        ELSE grown
           IN  [s EXCEPT !.profiles[i].transactions = kept]

addTransaction(s, profileId, tx) ==
  LET i == FindProfile(s, profileId)
  IN  IF i = 0 THEN s
      ELSE LET grown == <<tx>> \o s.profiles[i].transactions
               kept  == IF Len(grown) > MaxTransactions
                        THEN SubSeq(grown, 1, MaxTransactions) ELSE grown
           IN  [s EXCEPT !.profiles[i].transactions = kept]

(***************************************************************************)
(* Sessions and the auth middleware.                                       *)
(***************************************************************************)
\* req.cookies?.session || req.headers['x-session-token']
SessionToken(a) == IF a[1] # 0 THEN a[1] ELSE a[2]

\* A session already expired when it is exactly 12 hours old.
ExpiredAtTtl(tok) == now - sessions[tok].createdAt >= SessionTtlMs

Expired(tok) == now - sessions[tok].createdAt > SessionTtlMs

isValidSession(tok) == tok # 0 /\ tok \in DOMAIN sessions /\ ~Expired(tok)

\* The sessions map after isValidSession(tok): an expired session is deleted.
SessionsAfterCheck(tok) ==
  IF tok # 0 /\ tok \in DOMAIN sessions /\ Expired(tok)
  THEN [t \in DOMAIN sessions \ {tok} |-> sessions[t]]
  ELSE sessions

\* requireAuth that only looks for a token.
requireAuthAnyToken(a) == SessionToken(a) # 0

\* requireAuth lets the request through to the handler.
requireAuth(a) == isValidSession(SessionToken(a))

(***************************************************************************)
(* Requests and answers.                                                   *)
(***************************************************************************)
\* n numbers the events; status is 0 while the handler awaits Square;
\* amount is the amount field of a charge / payment-link body; calls is the
\* number of calls to Square made before the handler's first await; state is
\* the state parameter of a /auth/callback query (0 when there is none).
NoRequest ==
  [ n |-> 0, endpoint |-> "none", cookie |-> 0, header |-> 0, status |-> 0,
    detail |-> "", amount |-> <<>>, calls |-> 0, state |-> 0 ]

Event(ep, a, status, detail, amount, calls) ==
  lastReq' = [ n |-> lastReq.n + 1, endpoint |-> ep, cookie |-> a[1],
               header |-> a[2], status |-> status, detail |-> detail,
               amount |-> amount, calls |-> calls, state |-> 0 ]

Received(ep, a, status, detail) == Event(ep, a, status, detail, <<>>, 0)

\* The request is answered and nothing but the session map may change.
ReplyAmount(ep, a, status, detail, amount) ==
  /\ Event(ep, a, status, detail, amount, 0)
  /\ UNCHANGED << cfg, store, squareClient, env, renderEnv, putLost, renderPuts, oauthStates,
                  charges, callbacks, now, nextId, nextToken, mutated >>

Reply(ep, a, status, detail) == ReplyAmount(ep, a, status, detail, <<>>)

\* requireAuth's 401.
Unauthorized(ep, a) ==
  /\ sessions' = SessionsAfterCheck(SessionToken(a))
  /\ Reply(ep, a, 401, "Unauthorized")

CanReceive == lastReq.n < MaxEvents

(***************************************************************************)
(* persistProfiles, up to its await: PROFILES_JSON is set, and the PUT is  *)
(* sent when the hosting provider is configured.                           *)
(***************************************************************************)
persistProfilesEither(s, rid) ==
  /\ env' = <<Stringify(s)>>
  /\ renderPuts' =
       IF cfg.renderApiToken = "" /\ cfg.renderServiceId = ""
       THEN renderPuts
       ELSE renderPuts \cup {[rid |-> rid, body |-> Stringify(s)]}

persistProfiles(s, rid) ==
  /\ env' = <<Stringify(s)>>
  /\ renderPuts' =
       IF cfg.renderApiToken = "" \/ cfg.renderServiceId = ""
       THEN renderPuts
       ELSE renderPuts \cup {[rid |-> rid, body |-> Stringify(s)]}

\* The PUT is answered: below 300 the provider has stored the body.
PutDone ==
  \E p \in renderPuts, ok \in BOOLEAN :
    /\ renderPuts' = renderPuts \ {p}
    /\ renderEnv' = IF ok THEN <<p.body>> ELSE renderEnv
    /\ putLost' = (putLost \/ ~ok)
    /\ UNCHANGED << cfg, store, squareClient, env, sessions, oauthStates, charges,
                    callbacks, now, nextId, nextToken, mutated, lastReq >>

(***************************************************************************)
(* Login, logout, auth-status, the clock.                                  *)
(***************************************************************************)
Login ==
  /\ CanReceive
  /\ \E password \in {"changeme", "guess"} :
       IF password # "changeme"
       THEN /\ Reply("POST /api/login", <<0, 0>>, 401, "Incorrect password")
            /\ UNCHANGED sessions
       ELSE /\ nextToken <= MaxSessions
            /\ sessions' = (nextToken :> [createdAt |-> now]) @@ sessions
            /\ nextToken' = nextToken + 1
            /\ Received("POST /api/login", <<0, 0>>, 200, "success")
            /\ UNCHANGED << cfg, store, squareClient, env, renderEnv, putLost, renderPuts,
                            oauthStates, charges, callbacks, now, nextId,
                            mutated >>

Logout ==
  /\ CanReceive
  /\ \E a \in AuthInputs :
       /\ sessions' = [t \in DOMAIN sessions \ {a[1]} |-> sessions[t]]
       /\ Reply("POST /api/logout", a, 200, "success")

AuthStatus ==
  /\ CanReceive
  /\ \E a \in AuthInputs :
       /\ sessions' = SessionsAfterCheck(SessionToken(a))
       /\ Reply("GET /api/auth-status", a, 200,
                IF isValidSession(SessionToken(a)) THEN "authenticated" ELSE "anonymous")

\* Time passes: up to the session lifetime, or just beyond it.
Tick ==
  /\ CanReceive
  /\ \E d \in {SessionTtlMs, SessionTtlMs + 1} : now' = now + d
  /\ lastReq' = [NoRequest EXCEPT !.n = lastReq.n + 1, !.endpoint = "tick"]
  /\ UNCHANGED << cfg, store, squareClient, env, renderEnv, putLost, renderPuts, sessions,
                  oauthStates, charges, callbacks, nextId, nextToken, mutated >>

(***************************************************************************)
(* Protected profile routes.                                               *)
(***************************************************************************)
\* One entry of the GET /api/profiles answer.
ProfileView(s, p) ==
  [ id |-> p.id, name |-> p.name, applicationId |-> p.applicationId,
    locationId |-> p.locationId, accessTokenMasked |-> maskToken(p.accessToken),
    maxAmount |-> JsonNumber(p.maxAmount), active |-> (p.id = s.activeId),
    transactionCount |-> Len(p.transactions) ]

\* The body of the GET /api/profiles answer.
ProfilesResponse(s) ==
  [ activeId |-> s.activeId,
    profiles |-> [i \in 1..Len(s.profiles) |-> ProfileView(s, s.profiles[i])] ]

GetProfiles ==
  /\ CanReceive
  /\ \E a \in AuthInputs :
       IF ~requireAuth(a) THEN Unauthorized("GET /api/profiles", a)
       ELSE /\ UNCHANGED sessions
            /\ Reply("GET /api/profiles", a, 200, "profiles")

GetTransactions ==
  /\ CanReceive
  /\ \E a \in AuthInputs :
       IF ~requireAuth(a) THEN Unauthorized("GET /api/profiles/:id/transactions", a)
       ELSE /\ UNCHANGED sessions
            /\ \E id \in 1..nextId :
                 IF FindProfile(store, id) = 0
                 THEN Reply("GET /api/profiles/:id/transactions", a, 404, "Not found")
                 ELSE Reply("GET /api/profiles/:id/transactions", a, 200, "transactions")

\* The routes that forward to Square with the profile's own token
\* (bank-accounts, merchant, locations, report), by one that reads and one
\* that writes; the writing ones require a name in the body.
SquareRoutes == {"GET /api/profiles/:id/merchant", "POST /api/profiles/:id/locations"}

NamedRoutes == {"POST /api/profiles/:id/locations"}

\* The handler's calls to Square and its answer are folded into the step
\* that receives the request: they read the store once and change nothing.
ProfileSquareCall ==
  /\ CanReceive
  /\ \E a \in AuthInputs, ep \in SquareRoutes :
       IF ~requireAuth(a) THEN Unauthorized(ep, a)
       ELSE /\ UNCHANGED sessions
            /\ \E id \in 1..nextId :
                 IF FindProfile(store, id) = 0 THEN Reply(ep, a, 404, "Not found")
                 ELSE \E name \in {"", "Main"} :
                        IF ep \in NamedRoutes /\ name = ""
                        THEN Reply(ep, a, 400, "Name is required")
                        ELSE /\ Event(ep, a, 200, "forwarded", <<>>, 1)
                             /\ UNCHANGED << cfg, store, squareClient, env, renderEnv, putLost,
                                             renderPuts, oauthStates, charges,
                                             callbacks, now, nextId, nextToken,
                                             mutated >>

Activate ==
  /\ CanReceive
  /\ \E a \in AuthInputs :
       IF ~requireAuth(a) THEN Unauthorized("POST /api/profiles/:id/activate", a)
       ELSE /\ UNCHANGED sessions
            /\ \E id \in 1..nextId :
                 LET i == FindProfile(store, id) IN
                 IF i = 0
                 THEN Reply("POST /api/profiles/:id/activate", a, 404, "Not found")
                 ELSE /\ store' = [store EXCEPT !.activeId = store.profiles[i].id]
                      /\ squareClient' = createClient(store.profiles[i])
                      /\ persistProfiles(store', lastReq.n + 1)
                      /\ mutated' = TRUE
                      /\ Received("POST /api/profiles/:id/activate", a, 200, "success")
                      /\ UNCHANGED << cfg, renderEnv, putLost, oauthStates, charges, callbacks,
                                      now, nextId, nextToken >>

\* The update branch of POST /api/profiles: the stored profile after it.
UpdatedProfile(p, f, tok, max) ==
  [ p EXCEPT !.name = f[1], !.applicationId = f[2], !.locationId = f[3],
             !.maxAmount = ParseMaxAmount(max),
             !.accessToken = IF tok # <<>> THEN tok ELSE @ ]

\* The pushed profile numbered by its position instead of by uuidv4().
CreatedProfileByCount(id, f, tok, max) ==
  [ id |-> Len(store.profiles) + 1, name |-> f[1], accessToken |-> tok,
    applicationId |-> f[2], locationId |-> f[3], maxAmount |-> ParseMaxAmount(max),
    transactions |-> <<>> ]

\* The create branch of POST /api/profiles: the pushed profile.
CreatedProfile(id, f, tok, max) ==
  [ id |-> id, name |-> f[1], accessToken |-> tok, applicationId |-> f[2],
    locationId |-> f[3], maxAmount |-> ParseMaxAmount(max), transactions |-> <<>> ]

SaveProfile ==
  /\ CanReceive
  /\ \E a \in AuthInputs :
       IF ~requireAuth(a) THEN Unauthorized("POST /api/profiles", a)
       ELSE
         /\ UNCHANGED sessions
         /\ \E f \in FieldInputs :
              IF f[1] = "" \/ f[2] = "" \/ f[3] = ""
              THEN Reply("POST /api/profiles", a, 400,
                         "name, applicationId and locationId are required")
              ELSE \E id \in 0..nextId, sec \in SecretInputs :
                LET i   == FindProfile(store, id)
                    tok == sec[1]
                    max == sec[2]
                IN
                IF id # 0 /\ i = 0 THEN Reply("POST /api/profiles", a, 404, "Not found")
                ELSE IF id = 0 /\ tok = <<>>
                THEN Reply("POST /api/profiles", a, 400, "accessToken is required")
                ELSE
                  /\ IF id # 0
                     THEN /\ store' = [store EXCEPT !.profiles[i] =
                                         UpdatedProfile(store.profiles[i], f, tok, max)]
                          /\ squareClient' = IF store.activeId = id
                                             THEN createClient(store'.profiles[i])
                                             ELSE squareClient
                          /\ UNCHANGED nextId
                     ELSE /\ Len(store.profiles) < MaxProfiles
                          /\ store' = [store EXCEPT !.profiles =
                                         Append(@, CreatedProfile(nextId, f, tok, max))]
                          /\ nextId' = nextId + 1
                          /\ UNCHANGED squareClient
                  /\ persistProfiles(store', lastReq.n + 1)
                  /\ mutated' = TRUE
                  /\ Received("POST /api/profiles", a, 200, "success")
                  /\ UNCHANGED << cfg, renderEnv, putLost, oauthStates, charges, callbacks, now,
                                  nextToken >>

\* store.profiles.filter(p => p.id !== id)
RECURSIVE WithoutId(_, _)
WithoutId(ps, id) ==
  IF ps = <<>> THEN <<>>
  ELSE IF Head(ps).id = id THEN WithoutId(Tail(ps), id)
  ELSE <<Head(ps)>> \o WithoutId(Tail(ps), id)

\* store.profiles[0].id throws a TypeError when the filter left nothing:
\* the handler stops after the assignment to store.profiles.
DeleteThrows(s, id) == s.activeId = id /\ WithoutId(s.profiles, id) = <<>>

\* The store after the delete handler has removed id.
DeletedStoreKeepActive(s, id) ==
  [activeId |-> s.activeId, profiles |-> WithoutId(s.profiles, id)]

DeletedStore(s, id) ==
  LET rest == WithoutId(s.profiles, id)
  IN  [ activeId |-> IF s.activeId = id /\ rest # <<>> THEN rest[1].id ELSE s.activeId,
        profiles |-> rest ]

\* store.profiles.length <= 1
IsLastProfileStrict(s) == Len(s.profiles) < 1

IsLastProfile(s) == Len(s.profiles) <= 1

DeleteProfile ==
  /\ CanReceive
  /\ \E a \in AuthInputs :
       IF ~requireAuth(a) THEN Unauthorized("DELETE /api/profiles/:id", a)
       ELSE /\ UNCHANGED sessions
            /\ IF IsLastProfile(store)
               THEN Reply("DELETE /api/profiles/:id", a, 400, "Cannot delete last profile")
               ELSE \E id \in 1..nextId :
                      /\ store' = DeletedStore(store, id)
                      /\ IF DeleteThrows(store, id)
                         THEN /\ Received("DELETE /api/profiles/:id", a, 500, "TypeError")
                              /\ UNCHANGED << squareClient, env, renderPuts >>
                         ELSE /\ squareClient' = IF store.activeId = id
                                                 THEN createClient(store'.profiles[1])
                                                 ELSE squareClient
                              /\ persistProfiles(store', lastReq.n + 1)
                              /\ Received("DELETE /api/profiles/:id", a, 200, "success")
                      /\ mutated' = TRUE
                      /\ UNCHANGED << cfg, renderEnv, putLost, oauthStates, charges, callbacks,
                                      now, nextId, nextToken >>

(***************************************************************************)
(* Charge and payment link.                                                *)
(***************************************************************************)
\* The limit compared in cents.
ExceedsLimitCents(profile, amount) ==
  Truthy(profile.maxAmount)
    /\ JsGreater(ParseFloat(amount), JsNum(profile.maxAmount.v * 100))

\* profile.maxAmount && parseFloat(amount) > profile.maxAmount
ExceedsLimit(profile, amount) ==
  Truthy(profile.maxAmount) /\ JsGreater(ParseFloat(amount), profile.maxAmount)

\* BigInt(Math.round(parseFloat(amount) * 100)) throws a RangeError on NaN,
\* inside the try block and before the processor is called.
BigIntThrows(amount) == ParseFloat(amount).t # "num"

Tx(id, type, amount, status) ==
  [id |-> id, type |-> type, amount |-> amount, status |-> status]

Charge ==
  /\ CanReceive
  /\ \E a \in AuthInputs :
       IF ~requireAuth(a) THEN Unauthorized("POST /api/charge", a)
       ELSE
         /\ UNCHANGED sessions
         /\ \E sourceId \in {"", "cnon"}, amount \in AmountInputs :
              LET profile == activeProfile(store)
                  rid     == lastReq.n + 1
              IN
              IF sourceId = "" \/ amount = <<>>
              THEN ReplyAmount("POST /api/charge", a, 400,
                               "sourceId and amount required", amount)
              ELSE IF ExceedsLimit(profile, amount)
              THEN ReplyAmount("POST /api/charge", a, 400, "Amount exceeds limit", amount)
              ELSE IF BigIntThrows(amount)
              THEN /\ store' = addTransaction(store, profile.id,
                                 Tx(rid, "charge", ParseFloat(amount), "FAILED"))
                   /\ persistProfiles(store', rid)
                   /\ mutated' = TRUE
                   /\ Event("POST /api/charge", a, 400, "failed", amount, 0)
                   /\ UNCHANGED << cfg, squareClient, renderEnv, putLost, oauthStates, charges,
                                   callbacks, now, nextId, nextToken >>
              ELSE /\ charges' = charges \cup
                        {[ rid |-> rid, kind |-> "charge", profileId |-> profile.id,
                           amount |-> ParseFloat(amount), credential |-> squareClient ]}
                   /\ Event("POST /api/charge", a, 0, "createPayment", amount, 1)
                   /\ UNCHANGED << cfg, store, squareClient, env, renderEnv, putLost, renderPuts,
                                   oauthStates, callbacks, now, nextId, nextToken,
                                   mutated >>

\* createPayment resolved: the payment is recorded and the store persisted.
CreatePaymentReturn ==
  \E r \in charges, status \in PaymentStatuses :
    /\ r.kind = "charge"
    /\ charges' = charges \ {r}
    /\ store' = addTransaction(store, r.profileId, Tx(r.rid, "charge", r.amount, status))
    /\ persistProfiles(store', r.rid)
    /\ mutated' = TRUE
    /\ UNCHANGED << cfg, squareClient, renderEnv, putLost, sessions, oauthStates, callbacks, now,
                    nextId, nextToken, lastReq >>

\* createPayment rejected: a FAILED transaction is recorded and persisted.
CreatePaymentThrow ==
  \E r \in charges :
    /\ r.kind = "charge"
    /\ charges' = charges \ {r}
    /\ store' = addTransaction(store, r.profileId, Tx(r.rid, "charge", r.amount, "FAILED"))
    /\ persistProfiles(store', r.rid)
    /\ mutated' = TRUE
    /\ UNCHANGED << cfg, squareClient, renderEnv, putLost, sessions, oauthStates, callbacks, now,
                    nextId, nextToken, lastReq >>

PaymentLink ==
  /\ CanReceive
  /\ \E a \in AuthInputs :
       IF ~requireAuth(a) THEN Unauthorized("POST /api/payment-link", a)
       ELSE
         /\ UNCHANGED sessions
         /\ \E amount \in AmountInputs :
              LET profile == activeProfile(store)
                  rid     == lastReq.n + 1
              IN
              IF amount = <<>>
              THEN ReplyAmount("POST /api/payment-link", a, 400, "amount required", amount)
              ELSE IF ExceedsLimit(profile, amount)
              THEN ReplyAmount("POST /api/payment-link", a, 400,
                               "Amount exceeds limit", amount)
              ELSE IF BigIntThrows(amount)
              THEN ReplyAmount("POST /api/payment-link", a, 400, "failed", amount)
              ELSE /\ charges' = charges \cup
                        {[ rid |-> rid, kind |-> "link", profileId |-> profile.id,
                           amount |-> ParseFloat(amount), credential |-> squareClient ]}
                   /\ Event("POST /api/payment-link", a, 0, "createPaymentLink",
                            amount, 1)
                   /\ UNCHANGED << cfg, store, squareClient, env, renderEnv, putLost, renderPuts,
                                   oauthStates, callbacks, now, nextId, nextToken,
                                   mutated >>

\* createPaymentLink resolved: the link is recorded and the store persisted.
CreateLinkReturn ==
  \E r \in charges :
    /\ r.kind = "link"
    /\ charges' = charges \ {r}
    /\ store' = addTransaction(store, r.profileId,
                               Tx(r.rid, "link", r.amount, "LINK_CREATED"))
    /\ persistProfiles(store', r.rid)
    /\ mutated' = TRUE
    /\ UNCHANGED << cfg, squareClient, renderEnv, putLost, sessions, oauthStates, callbacks, now,
                    nextId, nextToken, lastReq >>

\* createPaymentLink rejected: the handler answers 400 and records nothing.
CreateLinkThrow ==
  \E r \in charges :
    /\ r.kind = "link"
    /\ charges' = charges \ {r}
    /\ UNCHANGED << cfg, store, squareClient, env, renderEnv, putLost, renderPuts, sessions,
                    oauthStates, callbacks, now, nextId, nextToken, mutated,
                    lastReq >>

(***************************************************************************)
(* Square OAuth.                                                           *)
(***************************************************************************)
AuthSquare ==
  /\ CanReceive
  /\ \E a \in AuthInputs :
       IF ~requireAuth(a) THEN Unauthorized("GET /auth/square", a)
       ELSE /\ UNCHANGED sessions
            /\ IF cfg.sqClientId = ""
               THEN /\ Reply("GET /auth/square", a, 400, "SQ_CLIENT_ID not configured")
                    /\ UNCHANGED oauthStates
               ELSE \E name \in {"", "Cafe"} :
                      /\ oauthStates' =
                           ((lastReq.n + 1) :>
                              [ profileName |-> IF name = "" THEN "New Business" ELSE name,
                                createdAt |-> now ]) @@ oauthStates
                      /\ Received("GET /auth/square", a, 302, "authorize")
                      /\ UNCHANGED << cfg, store, squareClient, env, renderEnv, putLost,
                                      renderPuts, charges, callbacks, now, nextId,
                                      nextToken, mutated >>

\* A /auth/callback request with this state parameter, and its answer.
CallbackEvent(a, state, status, detail, calls) ==
  lastReq' = [ n |-> lastReq.n + 1, endpoint |-> "GET /auth/callback",
               cookie |-> a[1], header |-> a[2], status |-> status,
               detail |-> detail, amount |-> <<>>, calls |-> calls, state |-> state ]

\* The callback redirects at once and changes nothing.
CallbackRefused(a, state, detail) ==
  /\ CallbackEvent(a, state, 302, detail, 0)
  /\ UNCHANGED << cfg, store, squareClient, env, renderEnv, putLost, renderPuts,
                  sessions, oauthStates, charges, callbacks, now, nextId, nextToken,
                  mutated >>

\* The state stays in the map after the callback has read it.
KeepState(state) == oauthStates

\* oauthStates.delete(state)
ConsumeState(state) == [x \in DOMAIN oauthStates \ {state} |-> oauthStates[x]]

\* GET /auth/callback up to the token exchange.  The route has no requireAuth.
Callback ==
  /\ CanReceive
  /\ \E a \in AuthInputs, error \in {"", "access_denied"}, state \in 0..MaxEvents :
       IF error # ""
       THEN CallbackRefused(a, state, "error")
       ELSE IF state \notin DOMAIN oauthStates
       THEN CallbackRefused(a, state, "invalid_state")
       ELSE /\ oauthStates' = ConsumeState(state)
            /\ callbacks' = callbacks \cup
                 {[ rid |-> lastReq.n + 1, pc |-> "exchange",
                    profileName |-> oauthStates[state].profileName,
                    exchangeStatus |-> 0, merchant |-> "none", locations |-> "none" ]}
            /\ CallbackEvent(a, state, 0, "exchange", 1)
            /\ UNCHANGED << cfg, store, squareClient, env, renderEnv, putLost, renderPuts,
                            sessions, charges, now, nextId, nextToken, mutated >>

\* The handler continues whatever the status of the exchange.
ExchangeAcceptedAny(status) == TRUE

\* The handler continues past the exchange with this status.
ExchangeAccepted(status) == status = 200

\* The token exchange is answered.  On 200 both GET calls are issued.
ExchangeReturn ==
  \E r \in callbacks, status \in {200, 401} :
    /\ r.pc = "exchange"
    /\ IF ExchangeAccepted(status)
       THEN /\ callbacks' = (callbacks \ {r}) \cup
                 {[r EXCEPT !.pc = "gets", !.exchangeStatus = status,
                            !.merchant = "sent", !.locations = "sent"]}
       ELSE /\ callbacks' = callbacks \ {r}
    /\ UNCHANGED << cfg, store, squareClient, env, renderEnv, putLost, renderPuts, sessions,
                    oauthStates, charges, now, nextId, nextToken, mutated, lastReq >>

\* The token exchange fails on the wire: the catch block redirects.
ExchangeError ==
  \E r \in callbacks :
    /\ r.pc = "exchange"
    /\ callbacks' = callbacks \ {r}
    /\ UNCHANGED << cfg, store, squareClient, env, renderEnv, putLost, renderPuts, sessions,
                    oauthStates, charges, now, nextId, nextToken, mutated,
                    lastReq >>

\* What a follow-up GET can bring: the wanted member, a body without it, or
\* a rejection.
GetOutcomes == {"found", "empty", "rejected"}

\* /v2/merchants/me is answered.  A rejection rejects Promise.all at once.
GetMerchantDone ==
  \E r \in callbacks, o \in GetOutcomes :
    /\ r.pc = "gets" /\ r.merchant = "sent"
    /\ callbacks' = IF o = "rejected" THEN callbacks \ {r}
                    ELSE (callbacks \ {r}) \cup {[r EXCEPT !.merchant = o]}
    /\ UNCHANGED << cfg, store, squareClient, env, renderEnv, putLost, renderPuts, sessions,
                    oauthStates, charges, now, nextId, nextToken, mutated,
                    lastReq >>

\* /v2/locations is answered.
GetLocationsDone ==
  \E r \in callbacks, o \in GetOutcomes :
    /\ r.pc = "gets" /\ r.locations = "sent"
    /\ callbacks' = IF o = "rejected" THEN callbacks \ {r}
                    ELSE (callbacks \ {r}) \cup {[r EXCEPT !.locations = o]}
    /\ UNCHANGED << cfg, store, squareClient, env, renderEnv, putLost, renderPuts, sessions,
                    oauthStates, charges, now, nextId, nextToken, mutated,
                    lastReq >>

\* Promise.race in place of Promise.all.
EitherGetDone(r) ==
  /\ r.pc = "gets"
  /\ r.merchant # "rejected" /\ r.locations # "rejected"
  /\ r.merchant \in {"found", "empty"} \/ r.locations \in {"found", "empty"}

\* Promise.all([merchant GET, locations GET]) has resolved.
BothGetsDone(r) ==
  r.pc = "gets" /\ r.merchant \in {"found", "empty"} /\ r.locations \in {"found", "empty"}

OAuthProfile(id, r) ==
  [ id |-> id,
    name |-> IF r.merchant = "found" THEN "Merchant Ltd" ELSE r.profileName,
    accessToken |-> TokOAuth, applicationId |-> cfg.sqClientId,
    locationId |-> IF r.locations = "found" THEN "L1" ELSE "",
    maxAmount |-> JsNull, transactions |-> <<>> ]

\* The profile is pushed, activated when it is the only one, and persisted.
CallbackFinish ==
  \E r \in callbacks :
    /\ BothGetsDone(r)
    /\ Len(store.profiles) < MaxProfiles
    /\ LET new   == OAuthProfile(nextId, r)
           first == Len(store.profiles) + 1 = 1
       IN  /\ store' = [ activeId |-> IF first THEN new.id ELSE store.activeId,
                         profiles |-> Append(store.profiles, new) ]
           /\ squareClient' = IF first THEN createClient(new) ELSE squareClient
    /\ callbacks' = callbacks \ {r}
    /\ nextId' = nextId + 1
    /\ persistProfiles(store', r.rid)
    /\ mutated' = TRUE
    /\ UNCHANGED << cfg, renderEnv, putLost, sessions, oauthStates, charges, now, nextToken,
                    lastReq >>

(***************************************************************************)
(* Start of the process.                                                   *)
(***************************************************************************)
\* First start: PROFILES_JSON is unset and the default profile is seeded.
Init ==
  /\ cfg \in Configs
  /\ store = loadProfiles(<<>>, 1)
  /\ squareClient = createClient(activeProfile(store))
  /\ env = <<>>
  /\ renderEnv = <<>>
  /\ renderPuts = {}
  /\ putLost = FALSE
  /\ sessions = << >>
  /\ oauthStates = << >>
  /\ charges = {}
  /\ callbacks = {}
  /\ now = 0
  /\ nextId = 2
  /\ nextToken = 1
  /\ mutated = FALSE
  /\ lastReq = NoRequest

\* The process is restarted: it starts from the PROFILES_JSON the hosting
\* provider holds; sessions, pending OAuth states and handlers are gone.
Restart ==
  /\ CanReceive
  /\ env' = renderEnv
  /\ store' = loadProfiles(renderEnv, nextId)
  /\ nextId' = IF renderEnv = <<>> THEN nextId + 1 ELSE nextId
  /\ squareClient' = createClient(activeProfile(store'))
  /\ renderPuts' = {}
  /\ putLost' = (putLost \/ renderPuts # {})
  /\ sessions' = << >>
  /\ oauthStates' = << >>
  /\ charges' = {}
  /\ callbacks' = {}
  /\ mutated' = FALSE
  /\ lastReq' = [NoRequest EXCEPT !.n = lastReq.n + 1, !.endpoint = "restart"]
  /\ UNCHANGED << cfg, renderEnv, now, nextToken >>

Next ==
  \/ Login \/ Logout \/ AuthStatus \/ Tick
  \/ GetProfiles \/ GetTransactions \/ ProfileSquareCall
  \/ Activate \/ SaveProfile \/ DeleteProfile
  \/ Charge \/ CreatePaymentReturn \/ CreatePaymentThrow
  \/ PaymentLink \/ CreateLinkReturn \/ CreateLinkThrow
  \/ AuthSquare \/ Callback \/ ExchangeReturn \/ ExchangeError
  \/ GetMerchantDone \/ GetLocationsDone \/ CallbackFinish
  \/ PutDone \/ Restart

Spec == Init /\ [][Next]_vars

(***************************************************************************)
(* The transaction log on its own: a process started from a persisted      *)
(* store whose only profile already holds n transactions, with one session *)
(* open, receiving charge and payment-link requests.  The process has      *)
(* served all but MaxTxSteps of the events of a behaviour already.         *)
(***************************************************************************)
SeedTxs(n) == [k \in 1..n |-> Tx(1000 + n - k + 1, "charge", JsNum(1), "COMPLETED")]

SeedLens == {0} \cup ((MaxTransactions - 2)..MaxTransactions)

SeedStore(n) ==
  [ activeId |-> 1,
    profiles |-> <<[defaultProfile(1) EXCEPT !.transactions = SeedTxs(n)]>> ]

InitTx ==
  /\ cfg = [renderApiToken |-> "", renderServiceId |-> "", sqClientId |-> ""]
  /\ \E n \in SeedLens :
       /\ env = <<Stringify(SeedStore(n))>>
       /\ store = loadProfiles(env, 1)
  /\ squareClient = createClient(activeProfile(store))
  /\ renderEnv = <<>>
  /\ renderPuts = {}
  /\ putLost = FALSE
  /\ sessions = (1 :> [createdAt |-> 0])
  /\ oauthStates = << >>
  /\ charges = {}
  /\ callbacks = {}
  /\ now = 0
  /\ nextId = 2
  /\ nextToken = 2
  /\ mutated = FALSE
  /\ lastReq = [NoRequest EXCEPT !.n = MaxEvents - MaxTxSteps]

NextTx ==
  \/ Charge \/ CreatePaymentReturn \/ CreatePaymentThrow
  \/ PaymentLink \/ CreateLinkReturn \/ CreateLinkThrow

SpecTx == InitTx /\ [][NextTx]_vars

(***************************************************************************)
(* Properties.                                                             *)
(***************************************************************************)
\* The event just received, as seen from the step that receives it.
Arrives == lastReq'.n # lastReq.n

\* C1: in every reachable state the store holds at least one profile.
StoreNeverEmpty == Len(store.profiles) >= 1

\* C1 witness: a delete was refused because one profile was left.
W_LastDeleteRefused ==
  /\ lastReq.endpoint = "DELETE /api/profiles/:id"
  /\ lastReq.status = 400
  /\ Len(store.profiles) = 1

\* C2: after any mutation of the store, activeId is the id of a profile
\* that is in the store.
ActiveIdResolves ==
  mutated => \E i \in 1..Len(store.profiles) : store.profiles[i].id = store.activeId

\* C2 witness: the profile seeded at the first start (id 1, active) has been
\* deleted and another profile is active.
W_ActiveDeleted ==
  /\ lastReq.endpoint = "DELETE /api/profiles/:id"
  /\ lastReq.status = 200
  /\ \A i \in 1..Len(store.profiles) : store.profiles[i].id # 1
  /\ store.activeId # 1

\* C3: no profile's transaction list has more than 50 entries.
TransactionsCapped ==
  \A i \in 1..Len(store.profiles) :
    Len(store.profiles[i].transactions) <= MaxTransactions

\* C3 witness: a list is full and its newest entry was recorded by a request
\* of this behaviour.
W_FullList ==
  \E i \in 1..Len(store.profiles) :
    /\ Len(store.profiles[i].transactions) = MaxTransactions
    /\ store.profiles[i].transactions[1].id <= MaxEvents

\* C4: a step that changes a profile's transaction list puts one new entry
\* in front of the previous entries, kept in their order and cut to the
\* first 50, so a full list loses exactly its last entry; and the step in
\* which a charge handler records its payment is such a step for the profile
\* it charged.
Min(a, b) == IF a < b THEN a ELSE b

AddedInFront(old, new) ==
  /\ Len(new) = Min(Len(old) + 1, MaxTransactions)
  /\ \A k \in 2..Len(new) : new[k] = old[k - 1]
  /\ \A k \in 1..Len(old) : new[1].id # old[k].id

MostRecentFirst ==
  [][ \A i \in 1..Len(store.profiles) :
        LET old == store.profiles[i].transactions
            new == store'.profiles[i].transactions
        IN  /\ new # old => AddedInFront(old, new)
            /\ \A r \in charges \ charges' :
                 (r.kind = "charge" /\ r.profileId = store.profiles[i].id)
                   => /\ AddedInFront(old, new)
                      /\ new[1].id = r.rid
                      /\ new[1].amount = r.amount ]_vars

\* C4 witness: a list that was full has taken a new entry: the seeded list
\* of 50 has lost its oldest entry (id 1001) and kept the next oldest last.
W_OldestEvicted ==
  \E i \in 1..Len(store.profiles) :
    LET txs == store.profiles[i].transactions IN
    /\ Len(txs) = MaxTransactions
    /\ txs[1].id <= MaxEvents
    /\ txs[MaxTransactions].id = 1002
    /\ txs[2].id = 1000 + MaxTransactions

\* Characters of the token that the masked value shows.
ShownChars(m) == Cardinality({k \in 1..Len(m) : m[k] # "*"})

\* C5: the GET /api/profiles answer has no accessToken member, its
\* accessTokenMasked differs from the token, shows at most 4 + 4 characters,
\* nothing of a token shorter than 8 characters, and fewer characters than
\* the token has.
TokenMaskedOnRead ==
  \A i \in 1..Len(store.profiles) :
    LET t == store.profiles[i].accessToken
        v == ProfilesResponse(store).profiles[i]
    IN  /\ "accessToken" \notin DOMAIN v
        /\ v.accessTokenMasked # t
        /\ ShownChars(v.accessTokenMasked) <= 2 * MaskKeep
        /\ Len(t) < MaskMinLen => ShownChars(v.accessTokenMasked) = 0
        /\ t # <<>> => ShownChars(v.accessTokenMasked) < Len(t)

\* The active profile's ceiling and the amount of the arriving request.
OverCeiling(isSet(_)) ==
  LET max == activeProfile(store).maxAmount
      amt == ParseFloat(lastReq'.amount)
  IN  isSet(max) /\ amt.t = "num" /\ max.t = "num" /\ amt.v > max.v

ChargeArrives ==
  /\ Arrives
  /\ lastReq'.endpoint \in {"POST /api/charge", "POST /api/payment-link"}
  /\ isValidSession(IF lastReq'.cookie # 0 THEN lastReq'.cookie ELSE lastReq'.header)

Refused ==
  /\ lastReq'.status = 400
  /\ lastReq'.calls = 0
  /\ charges' = charges
  /\ store' = store

IsNumber(x) == x.t # "null"

NonZeroNumber(x) == x.t = "num" /\ x.v # 0

\* C6 as stated: with any maxAmount set on the active profile, a charge or
\* payment link above it is answered 400, the processor is not called and
\* nothing is recorded.
CeilingWhenSet == [][ChargeArrives /\ OverCeiling(IsNumber) => Refused]_vars

\* C6 amended: the same for a maxAmount that is a number other than 0.
CeilingWhenNonZero == [][ChargeArrives /\ OverCeiling(NonZeroNumber) => Refused]_vars

\* C6 witness: a charge above the active profile's ceiling has been refused.
W_OverCeilingRefused ==
  /\ lastReq.endpoint = "POST /api/charge"
  /\ lastReq.status = 400
  /\ lastReq.amount = <<"3">>
  /\ activeProfile(store).maxAmount = JsNum(2)

ProtectedEndpoints ==
  { "GET /api/profiles", "GET /api/profiles/:id/transactions",
    "GET /api/profiles/:id/merchant", "POST /api/profiles/:id/locations",
    "POST /api/profiles/:id/activate", "POST /api/profiles",
    "DELETE /api/profiles/:id", "POST /api/charge", "POST /api/payment-link",
    "GET /auth/square" }

\* C7: a request to a protected endpoint whose cookie and header are both no
\* valid session token is answered 401 Unauthorized, leaves the store as it
\* is and makes no call to Square.
AuthGuardsStore ==
  [][ ( /\ Arrives
        /\ lastReq'.endpoint \in ProtectedEndpoints
        /\ ~isValidSession(lastReq'.cookie)
        /\ ~isValidSession(lastReq'.header) )
      => ( /\ lastReq'.status = 401
           /\ lastReq'.detail = "Unauthorized"
           /\ store' = store
           /\ squareClient' = squareClient
           /\ env' = env
           /\ lastReq'.calls = 0
           /\ charges' = charges
           /\ callbacks' = callbacks
           /\ oauthStates' = oauthStates ) ]_vars

\* C7 witness: a charge presenting the token of a session that is gone was
\* answered 401.
W_StaleSessionRefused ==
  /\ lastReq.endpoint = "POST /api/charge"
  /\ lastReq.status = 401
  /\ lastReq.cookie # 0
  /\ lastReq.cookie < nextToken
  /\ lastReq.cookie \notin DOMAIN sessions

RenderConfigured == cfg.renderApiToken # "" /\ cfg.renderServiceId # ""

\* C8: once a mutating request has applied its change, PROFILES_JSON is the
\* serialization of the store in every state; a PUT is sent only when
\* RENDER_API_TOKEN and RENDER_SERVICE_ID are both configured.
PersistedInEnv ==
  /\ mutated => env = <<Stringify(store)>>
  /\ (renderPuts # {} \/ renderEnv # <<>>) => RenderConfigured

\* C8 witness: a recorded charge has been persisted and its PUT is in flight.
W_PersistedCharge ==
  /\ mutated
  /\ \E p \in renderPuts : p.body = Stringify(store)
  /\ \E i \in 1..Len(store.profiles) : store.profiles[i].transactions # <<>>

\* C9: the string persistProfiles wrote to PROFILES_JSON, loaded at the next
\* start, gives the store that was serialized.
RoundTrip == (mutated /\ env # <<>>) => loadProfiles(env, nextId) = store

\* C10: the two GET calls are sent only after the exchange returned 200; a
\* step of a callback handler changes the store only when both GET calls
\* have been answered, and it persists the new store; a handler that ends
\* at the exchange changes nothing.
CallbackEnds(r) == r \in callbacks /\ \A q \in callbacks' : q.rid # r.rid

OAuthSequential ==
  /\ [](\A r \in callbacks :
          (r.merchant # "none" \/ r.locations # "none") => r.exchangeStatus = 200)
  /\ [][ (lastReq' = lastReq /\ callbacks' # callbacks)
         => /\ store' # store =>
                 \E r \in callbacks :
                   /\ CallbackEnds(r)
                   /\ r.exchangeStatus = 200
                   /\ r.merchant \in {"found", "empty"}
                   /\ r.locations \in {"found", "empty"}
                   /\ Len(store'.profiles) = Len(store.profiles) + 1
                   /\ env' = <<Stringify(store')>>
            /\ \A r \in callbacks :
                 (CallbackEnds(r) /\ r.pc = "exchange") => store' = store ]_vars

\* C10 witness: a profile created by the OAuth callback is in the store and
\* no callback is in progress.
W_OAuthProfile ==
  /\ callbacks = {}
  /\ \E i \in 1..Len(store.profiles) :
       /\ store.profiles[i].accessToken = TokOAuth
       /\ store.profiles[i].name = "Merchant Ltd"
       /\ store.profiles[i].locationId = ""

UniqueIds(s) ==
  \A i, j \in 1..Len(s.profiles) : i # j => s.profiles[i].id # s.profiles[j].id

\* Every profile of the store is still at its place with its id after the step.
KeepsIds ==
  \A i \in 1..Len(store.profiles) :
    i <= Len(store'.profiles) /\ store'.profiles[i].id = store.profiles[i].id

\* C11: profiles are keyed by id: in every reachable state no two profiles
\* of the store have the same id, and every step other than a delete (or a
\* restart of the process) leaves each existing profile with the id it had.
ProfilesKeyedById ==
  /\ [](UniqueIds(store))
  /\ [][ (lastReq' = lastReq
            \/ lastReq'.endpoint \notin {"DELETE /api/profiles/:id", "restart"})
          => KeepsIds ]_vars

\* C11 witness: a second profile has been created and the first one updated
\* in place, under the id it was seeded with.
W_UpdatedInPlace ==
  /\ lastReq.endpoint = "POST /api/profiles" /\ lastReq.status = 200
  /\ Len(store.profiles) = 2
  /\ store.profiles[1].id = 1 /\ store.profiles[1].name = "Shop"
  /\ store.profiles[2].id # 1

\* The handler of charge r has recorded exactly one transaction, at the head
\* of the list of the profile that was active when r was validated, and has
\* touched no other list.
RecordedOnce(r) ==
  /\ \E i \in 1..Len(store'.profiles) :
       /\ store'.profiles[i].id = r.profileId
       /\ store'.profiles[i].transactions # <<>>
       /\ store'.profiles[i].transactions[1].id = r.rid
       /\ store'.profiles[i].transactions[1].status \in PaymentStatuses \cup {"FAILED"}
       /\ Cardinality({k \in 1..Len(store'.profiles[i].transactions) :
                         store'.profiles[i].transactions[k].id = r.rid}) = 1
  /\ \A i \in 1..Len(store'.profiles) :
       store'.profiles[i].id # r.profileId
         => /\ i <= Len(store.profiles)
            /\ store'.profiles[i].transactions = store.profiles[i].transactions

\* C12: every charge the processor has answered, whether it accepted or
\* rejected it, adds exactly one transaction to the list of the profile that
\* was active when the request was validated, whatever requests were served
\* in between.
ChargeRecordedOnce ==
  [][ \A r \in charges \ charges' :
        (lastReq' = lastReq /\ r.kind = "charge") => RecordedOnce(r) ]_vars

\* C13: in every state between handler steps the payments client holds the
\* access token of the profile activeProfile() returns.
ClientMatchesActive == squareClient = activeProfile(store).accessToken

\* C13 witness: the active profile has been deleted and the client rebuilt
\* with the token of the profile that took its place.
W_ClientFollowsDelete ==
  /\ lastReq.endpoint = "DELETE /api/profiles/:id" /\ lastReq.status = 200
  /\ store.activeId # 1
  /\ squareClient # <<>>
  /\ squareClient = store.profiles[1].accessToken

\* No handler is between two of its steps, and every PUT has been answered.
Quiescent == renderPuts = {} /\ charges = {} /\ callbacks = {}

\* C14: remote persistence converges: once every PUT issued by
\* persistProfiles has been answered successfully and no request is in
\* progress, the hosting provider holds the serialization of the store.
RemoteConverges ==
  (RenderConfigured /\ mutated /\ ~putLost /\ Quiescent)
    => renderEnv = <<Stringify(store)>>

CallbackArrives == Arrives /\ lastReq'.endpoint = "GET /auth/callback"

\* Callback handlers that start their token exchange in this step.
Started == {r \in callbacks' \ callbacks : r.pc = "exchange"}

\* A profile holding an OAuth token is appended in this step.
OAuthAppended ==
  /\ Len(store'.profiles) > Len(store.profiles)
  /\ store'.profiles[Len(store'.profiles)].accessToken = TokOAuth

\* States enter oauthStates only by an authenticated GET /auth/square, each
\* under a value never used before.
IssuedByAuthSquare ==
  \A x \in DOMAIN oauthStates' \ DOMAIN oauthStates :
    /\ Arrives /\ lastReq'.endpoint = "GET /auth/square" /\ lastReq'.status = 302
    /\ isValidSession(IF lastReq'.cookie # 0 THEN lastReq'.cookie ELSE lastReq'.header)
    /\ x = lastReq'.n

\* A handler starts the exchange only with a state that is in oauthStates,
\* and takes it out of the map in the same step.
StartConsumes ==
  Started # {}
    => /\ CallbackArrives /\ Cardinality(Started) = 1
       /\ lastReq'.state \in DOMAIN oauthStates
       /\ DOMAIN oauthStates' = DOMAIN oauthStates \ {lastReq'.state}

\* A profile is appended by one handler that had started its exchange, which
\* ends with it; no step appends more than one profile.
AppendEndsOne ==
  OAuthAppended
    => /\ Len(store'.profiles) = Len(store.profiles) + 1
       /\ Cardinality(callbacks \ callbacks') = 1
       /\ callbacks' \subseteq callbacks
       /\ \A r \in callbacks \ callbacks' : \A q \in callbacks' : q.rid # r.rid

UnknownState == CallbackArrives /\ lastReq'.state \notin DOMAIN oauthStates

StoreUntouched ==
  /\ store' = store /\ callbacks' = callbacks /\ oauthStates' = oauthStates
  /\ env' = env /\ lastReq'.calls = 0 /\ lastReq'.status = 302

\* C15 as stated: a state is issued by an authenticated GET /auth/square,
\* serves one callback and so at most one profile, and a callback with an
\* unknown or consumed state redirects with msg=invalid_state and leaves the
\* store unchanged.
StateSingleUse ==
  [][ /\ IssuedByAuthSquare /\ StartConsumes /\ AppendEndsOne
      /\ UnknownState => (StoreUntouched /\ lastReq'.detail = "invalid_state") ]_vars

\* C15 amended: the same, where the redirect of a callback with an unknown or
\* consumed state carries msg=invalid_state, or the error parameter when the
\* query has one.
StateSingleUseOrError ==
  [][ /\ IssuedByAuthSquare /\ StartConsumes /\ AppendEndsOne
      /\ UnknownState
           => (StoreUntouched /\ lastReq'.detail \in {"invalid_state", "error"}) ]_vars

\* C15 witness: the state issued by the second request was accepted by the
\* third and is refused when the fourth presents it again.
W_StateReplayed ==
  /\ lastReq.n = 4 /\ lastReq.endpoint = "GET /auth/callback"
  /\ lastReq.state = 2 /\ lastReq.detail = "invalid_state"
  /\ \/ \E r \in callbacks : r.rid = 3
     \/ \E i \in 1..Len(store.profiles) : store.profiles[i].accessToken = TokOAuth

\* The callback handler r ends in this step without having completed: its
\* exchange did not return 200, or a follow-up GET is rejected or unanswered.
CallbackFails(r) ==
  /\ CallbackEnds(r)
  /\ lastReq' = lastReq
  /\ r.exchangeStatus # 200 \/ ~BothGetsDone(r)

NothingStored ==
  /\ store' = store /\ squareClient' = squareClient
  /\ env' = env /\ renderPuts' = renderPuts /\ renderEnv' = renderEnv

\* C16: a failed OAuth callback changes nothing in the store: with an error
\* parameter, with a token exchange answered by a status other than 200, or
\* when the exchange or a follow-up GET throws, the handler redirects with an
\* error, store.profiles, store.activeId and squareClient are unchanged and
\* nothing is persisted.
FailedCallbackStoresNothing ==
  [][ /\ (CallbackArrives /\ lastReq'.detail \in {"error", "invalid_state"})
         => (NothingStored /\ lastReq'.status = 302 /\ callbacks' = callbacks)
      /\ \A r \in callbacks : CallbackFails(r) => NothingStored ]_vars

\* C16 witness: the callback passed the state check, its handler has ended,
\* and no profile was appended and nothing persisted.
W_FailedCallback ==
  /\ lastReq.endpoint = "GET /auth/callback" /\ lastReq.detail = "exchange"
  /\ callbacks = {}
  /\ Len(store.profiles) = 1
  /\ ~mutated /\ env = <<>> /\ renderPuts = {}

\* The session token the arriving request carries (0 when it carries none).
TokenSent == IF lastReq'.cookie # 0 THEN lastReq'.cookie ELSE lastReq'.header

\* The token is in the sessions map and was created at most 12 hours ago.
Fresh(t) ==
  t # 0 /\ t \in DOMAIN sessions /\ now - sessions[t].createdAt <= 12 * 60 * 60 * 1000

\* The arriving request has its token checked by isValidSession.
Checked ==
  Arrives /\ lastReq'.endpoint \in ProtectedEndpoints \cup {"GET /api/auth-status"}

Accepted ==
  IF lastReq'.endpoint = "GET /api/auth-status"
  THEN lastReq'.detail = "authenticated"
  ELSE lastReq'.status # 401

\* C17: sessions expire after 12 hours: a token is accepted exactly when it
\* is in the sessions map and was created at most 12 hours ago; a check made
\* later than that removes the token; a token that has left the map is never
\* in it, and so never accepted, again.
SessionsExpire ==
  [][ /\ Checked
         => /\ Accepted <=> Fresh(TokenSent)
            /\ (TokenSent \in DOMAIN sessions /\ ~Fresh(TokenSent))
                 => TokenSent \notin DOMAIN sessions'
      /\ \A t \in 1..(nextToken - 1) :
           t \notin DOMAIN sessions => t \notin DOMAIN sessions'
      /\ now' >= now ]_vars

\* C17 witness: a session opened by the first request, then 12 hours and a
\* millisecond pass, and the third request has it checked: it is refused
\* and removed.
W_SessionExpired ==
  /\ lastReq.n = 3 /\ lastReq.endpoint = "GET /api/auth-status"
  /\ lastReq.detail = "anonymous"
  /\ (IF lastReq.cookie # 0 THEN lastReq.cookie ELSE lastReq.header) = 1
  /\ nextToken = 2
  /\ now = SessionTtlMs + 1
  /\ 1 \notin DOMAIN sessions

====
